---- MODULE Spec2Model ----
(***************************************************************************)
(* Model of the vertigo client: the incoming-message codec                 *)
(* (src/resultset.go) and the connection state machine                     *)
(* (src/connection.go): Connect, Query, Close.                             *)
(*                                                                         *)
(* Go values are modelled as records.  An error value or a panic value is  *)
(* a record with a "type" field; a panic value of Go type string (the      *)
(* fmt.Sprintf panics) has type "string" and does not implement error.     *)
(***************************************************************************)
EXTENDS Integers, Sequences, FiniteSets, TLC

\* ------------------------------------------------------------ bounds
\* Frames the server may deliver during one handshake / one Query.
MaxHandshakeFrames == 4
MaxQueryFrames == 5

\* ------------------------------------------------------------ values
\* Callers of one connection; "connect" is the caller running Connect.
Callers == {"a", "b"}
Connector == "connect"
Threads == Callers \cup {Connector}

\* sync.Mutex: the zero value is unlocked.
Unlocked == "unlocked"

\* The nil error / nil panic value and the nil *Resultset.
Nil == [type |-> "nil"]
NilResultset == [nil |-> TRUE]
\* A nil []byte value of a row (SQL NULL), distinct from the empty value "".
NullValue == "<nil>"
\* The zero byte of transactionStatus.
ZeroByte == "0x00"

\* Authentication codes of AuthenticationRequestMessage.
AuthenticationOK == "AuthenticationOK"
AuthenticationCleartextPassword == "AuthenticationCleartextPassword"
AuthenticationMD5Password == "AuthenticationMD5Password"

SslNotSupported == [type |-> "SslNotSupported"]
AuthenticationMethodNotSupported == [type |-> "AuthenticationMethodNotSupported"]

\* Errors of the transport and of the Go runtime.
DialError == [type |-> "net.OpError", op |-> "dial"]
ReadError == [type |-> "io.EOF"]
WriteError == [type |-> "net.OpError", op |-> "write"]
TlsError == [type |-> "tls.handshake"]
NilDereference == [type |-> "runtime.Error", text |-> "nil pointer dereference"]

\* Whether a recovered panic value satisfies r.(error).
IsError(r) == r.type # "string"

\* ------------------------------------------------------------ codec
DecodeError(what) == [type |-> "decode", text |-> what]

\* A frame body is a record of the fields its bytes encode; a body with a
\* field "short" is too short for the fields its message type requires
\* (decodeUint8/16/32 find fewer bytes than needed, decodeCString finds no
\* terminator).
Short(body) == "short" \in DOMAIN body

\* Mutant of Code: reads the severity field instead of the code field.
CodeReadsSeverity(msg) ==
  IF msg.type = "ErrorResponseMessage"
  THEN IF "S" \in DOMAIN msg.Fields THEN msg.Fields["S"] ELSE ""
  ELSE ""

\* Code() of an error value: Fields['C'] of an ErrorResponseMessage (the zero
\* string when the map has no 'C'), "" of an EmptyQueryMessage.
Code(msg) ==
  IF msg.type = "ErrorResponseMessage"
  THEN IF "C" \in DOMAIN msg.Fields THEN msg.Fields["C"] ELSE ""
  ELSE ""

parseErrorResponseMessage(body) ==
  IF Short(body)
  THEN [msg |-> Nil, err |-> DecodeError("decodeCString: delimeter not found")]
  ELSE [msg |-> [type |-> "ErrorResponseMessage", Fields |-> body.Fields], err |-> Nil]

\* The body is ignored: this parser cannot fail.
parseEmptyQueryMessage(body) ==
  [msg |-> [type |-> "EmptyQueryMessage"], err |-> Nil]

parseAuthenticationRequestMessage(body) ==
  IF Short(body)
  THEN [msg |-> Nil, err |-> DecodeError("decodeUint32")]
  ELSE [msg |-> [type |-> "AuthenticationRequestMessage", AuthCode |-> body.AuthCode],
        err |-> Nil]

parseReadyForQueryMessage(body) ==
  IF Short(body)
  THEN [msg |-> Nil, err |-> DecodeError("decodeUint8")]
  ELSE [msg |-> [type |-> "ReadyForQueryMessage",
                 TransactionStatus |-> body.TransactionStatus],
        err |-> Nil]

parseParameterStatusMessage(body) ==
  IF Short(body)
  THEN [msg |-> Nil, err |-> DecodeError("decodeCString: delimeter not found")]
  ELSE [msg |-> [type |-> "ParameterStatusMessage",
                 Name |-> body.Name, Value |-> body.Value],
        err |-> Nil]

parseBackendKeyDataMessage(body) ==
  IF Short(body)
  THEN [msg |-> Nil, err |-> DecodeError("decodeUint32")]
  ELSE [msg |-> [type |-> "BackendKeyDataMessage", Pid |-> body.Pid, Key |-> body.Key],
        err |-> Nil]

parseCommandCompleteMessage(body) ==
  IF Short(body)
  THEN [msg |-> Nil, err |-> DecodeError("decodeCString: delimeter not found")]
  ELSE [msg |-> [type |-> "CommandCompleteMessage", Result |-> body.Result], err |-> Nil]

parseRowDescriptionMessage(body) ==
  IF Short(body)
  THEN [msg |-> Nil, err |-> DecodeError("parseRowDescriptionMessage")]
  ELSE [msg |-> [type |-> "RowDescriptionMessage", Fields |-> body.Fields], err |-> Nil]

parseDataRowMessage(body) ==
  IF Short(body)
  THEN [msg |-> Nil, err |-> DecodeError("parseDataRowMessage: truncated message")]
  ELSE [msg |-> [type |-> "DataRowMessage", Values |-> body.Values], err |-> Nil]

\* The tags of messageFactoryMethods.
KnownTags == {"R", "Z", "E", "I", "S", "K", "T", "C", "D"}

factoryMethod(tag, body) ==
  CASE tag = "R" -> parseAuthenticationRequestMessage(body)
    [] tag = "Z" -> parseReadyForQueryMessage(body)
    [] tag = "E" -> parseErrorResponseMessage(body)
    [] tag = "I" -> parseEmptyQueryMessage(body)
    [] tag = "S" -> parseParameterStatusMessage(body)
    [] tag = "K" -> parseBackendKeyDataMessage(body)
    [] tag = "T" -> parseRowDescriptionMessage(body)
    [] tag = "C" -> parseCommandCompleteMessage(body)
    [] tag = "D" -> parseDataRowMessage(body)

\* The least declared length of a frame: the four length bytes themselves.
MinMessageSize == 4

\* receiveMessage(r): what arrives is either a failed read (io = "err") or a
\* frame [tag, size, body].  The result is a message, an error, or a panic
\* (the tag has no factory method).
receiveMessage(item) ==
  IF item.io = "err"
  THEN [msg |-> Nil, err |-> ReadError, panic |-> Nil]
  ELSE IF item.size < MinMessageSize
  THEN [msg |-> Nil, panic |-> Nil,
        err |-> [type |-> "protocol", text |-> "A message should be at least 4 bytes long"]]
  ELSE IF item.tag \notin KnownTags
  THEN [msg |-> Nil, err |-> Nil,
        panic |-> [type |-> "string", text |-> "Unknown message type"]]
  ELSE [msg |-> factoryMethod(item.tag, item.body).msg,
        err |-> factoryMethod(item.tag, item.body).err,
        panic |-> Nil]

\* ------------------------------------------------------------ connection
\* A Go map[string]string as a function on the set of its keys.
EmptyMap == [n \in {} |-> ""]
MapSet(m, name, value) ==
  [n \in (DOMAIN m) \cup {name} |-> IF n = name THEN value ELSE m[n]]

\* Connection{}: the zero value Connect starts from.
NewConnection ==
  [l |-> Unlocked, socket |-> "nil", parameters |-> EmptyMap,
   backendPid |-> 0, backendKey |-> 0, transactionStatus |-> ZeroByte]

\* Mutant of resetConnection: backendPid is left as it was.
resetConnectionKeepsPid(c) ==
  [c EXCEPT !.socket = IF @ = "nil" THEN "nil" ELSE "closed",
            !.parameters = EmptyMap,
            !.backendKey = 0]

\* resetConnection: closes the socket when there is one and clears the
\* parameters, backendPid and backendKey; transactionStatus is not assigned.
resetConnection(c) ==
  [c EXCEPT !.socket = IF @ = "nil" THEN "nil" ELSE "closed",
            !.parameters = EmptyMap,
            !.backendPid = 0,
            !.backendKey = 0]

\* SendMessage(socket, msg) of the transport: the write fails on a closed
\* socket and on a broken network; on a nil socket the call dereferences nil.
SendMessage(socket, up) ==
  CASE socket = "nil" -> NilDereference
    [] socket = "closed" \/ ~up -> WriteError
    [] OTHER -> Nil

\* c.sendMessage: the panic it raises (Nil when the message was written).
sendMessage(c, up) == SendMessage(c.socket, up)

\* ReadMessage(socket) of the transport: a read on a socket that is not open
\* or on a broken network fails; otherwise the frame goes to receiveMessage.
ReadMessage(socket, up, item) ==
  IF socket # "open" \/ ~up
  THEN receiveMessage([io |-> "err"])
  ELSE receiveMessage(item)

\* c.receiveMessage: the message, or the panic raised (an error of
\* ReadMessage is raised as a panic; a panic of receiveMessage passes through).
c_receiveMessage(c, up, item) ==
  LET r == ReadMessage(c.socket, up, item)
  IN IF r.panic # Nil THEN [msg |-> Nil, panic |-> r.panic]
     ELSE IF r.err # Nil THEN [msg |-> Nil, panic |-> r.err]
     ELSE [msg |-> r.msg, panic |-> Nil]

\* Mutant of handleStatelessMessage: a parameter already present keeps its
\* first value.
handleStatelessMessageKeepsFirst(c, msg) ==
  CASE msg.type = "ParameterStatusMessage" ->
         [c |-> IF msg.Name \in DOMAIN c.parameters THEN c
                ELSE [c EXCEPT !.parameters = MapSet(@, msg.Name, msg.Value)],
          panic |-> Nil]
    [] msg.type = "BackendKeyDataMessage" ->
         [c |-> [c EXCEPT !.backendPid = msg.Pid, !.backendKey = msg.Key],
          panic |-> Nil]
    [] OTHER ->
         [c |-> c, panic |-> [type |-> "string", text |-> "Unexpected message"]]

\* handleStatelessMessage: the connection afterwards and the panic raised.
\* The default branch panics with a string.
handleStatelessMessage(c, msg) ==
  CASE msg.type = "ParameterStatusMessage" ->
         [c |-> [c EXCEPT !.parameters = MapSet(@, msg.Name, msg.Value)],
          panic |-> Nil]
    [] msg.type = "BackendKeyDataMessage" ->
         [c |-> [c EXCEPT !.backendPid = msg.Pid, !.backendKey = msg.Key],
          panic |-> Nil]
    [] OTHER ->
         [c |-> c, panic |-> [type |-> "string", text |-> "Unexpected message"]]

\* isReadyForQuery: the type test, and the connection after it (the
\* transaction status is recorded when the test succeeds).
isReadyForQuery(msg) == msg.type = "ReadyForQueryMessage"
recordTransactionStatus(c, msg) ==
  IF isReadyForQuery(msg)
  THEN [c EXCEPT !.transactionStatus = msg.TransactionStatus]
  ELSE c

\* Mutant of authenticate: the password is sent for AuthenticationOK too.
authenticateAlwaysSends(info, AuthCode) ==
  CASE AuthCode \in {AuthenticationOK, AuthenticationCleartextPassword} ->
         [send |-> [type |-> "PasswordMessage", Password |-> info.Password,
                    AuthenticationMethod |-> AuthCode],
          panic |-> Nil]
    [] OTHER ->
         [send |-> Nil, panic |-> AuthenticationMethodNotSupported]

\* initConnection's answer to an authentication challenge: the message
\* handed to sendMessage (Nil when none) and the panic raised.
authenticate(info, AuthCode) ==
  CASE AuthCode = AuthenticationOK ->
         [send |-> Nil, panic |-> Nil]
    [] AuthCode = AuthenticationCleartextPassword ->
         [send |-> [type |-> "PasswordMessage", Password |-> info.Password,
                    AuthenticationMethod |-> AuthCode],
          panic |-> Nil]
    [] OTHER ->
         [send |-> Nil, panic |-> AuthenticationMethodNotSupported]

\* One iteration of initConnection's loop body on a message that is not
\* ReadyForQuery: the connection afterwards, the message handed to
\* sendMessage (Nil when none) and the panic raised before any send.
initConnectionBody(c, info, msg) ==
  CASE msg.type = "AuthenticationRequestMessage" ->
         [c |-> c, send |-> authenticate(info, msg.AuthCode).send,
          panic |-> authenticate(info, msg.AuthCode).panic]
    [] msg.type = "ErrorResponseMessage" ->
         [c |-> c, send |-> Nil, panic |-> msg]
    [] OTHER ->
         [c |-> handleStatelessMessage(c, msg).c, send |-> Nil,
          panic |-> handleStatelessMessage(c, msg).panic]

\* Mutant of appendRow: the new row is put in front.
appendRowInFront(rows, values) == <<[Values |-> values]>> \o rows

\* append(resultset.Rows, Row{Values: msg.Values})
appendRow(rows, values) == Append(rows, [Values |-> values])

\* Mutant of QueryBody: an ErrorResponse or empty-query notice is raised as
\* a panic, as initConnection raises it.
QueryBodyAbortsOnError(resultset, queryError, c, msg) ==
  CASE msg.type \in {"EmptyQueryMessage", "ErrorResponseMessage"} ->
         [resultset |-> resultset, queryError |-> queryError, c |-> c, panic |-> msg]
    [] msg.type = "RowDescriptionMessage" ->
         [resultset |-> [Fields |-> msg.Fields, Rows |-> <<>>, Result |-> ""],
          queryError |-> queryError, c |-> c, panic |-> Nil]
    [] msg.type = "DataRowMessage" ->
         IF resultset = NilResultset
         THEN [resultset |-> resultset, queryError |-> queryError, c |-> c,
               panic |-> NilDereference]
         ELSE [resultset |-> [resultset EXCEPT !.Rows = appendRow(@, msg.Values)],
               queryError |-> queryError, c |-> c, panic |-> Nil]
    [] msg.type = "CommandCompleteMessage" ->
         IF resultset = NilResultset
         THEN [resultset |-> resultset, queryError |-> queryError, c |-> c,
               panic |-> NilDereference]
         ELSE [resultset |-> [resultset EXCEPT !.Result = msg.Result],
               queryError |-> queryError, c |-> c, panic |-> Nil]
    [] OTHER ->
         [resultset |-> resultset, queryError |-> queryError,
          c |-> handleStatelessMessage(c, msg).c,
          panic |-> handleStatelessMessage(c, msg).panic]

\* One iteration of Query's loop body on a message that is not
\* ReadyForQuery: the named results and the connection afterwards, and the
\* panic raised.  Assigning through a nil *Resultset dereferences nil.
QueryBody(resultset, queryError, c, msg) ==
  CASE msg.type \in {"EmptyQueryMessage", "ErrorResponseMessage"} ->
         [resultset |-> resultset, queryError |-> msg, c |-> c, panic |-> Nil]
    [] msg.type = "RowDescriptionMessage" ->
         [resultset |-> [Fields |-> msg.Fields, Rows |-> <<>>, Result |-> ""],
          queryError |-> queryError, c |-> c, panic |-> Nil]
    [] msg.type = "DataRowMessage" ->
         IF resultset = NilResultset
         THEN [resultset |-> resultset, queryError |-> queryError, c |-> c,
               panic |-> NilDereference]
         ELSE [resultset |-> [resultset EXCEPT !.Rows = appendRow(@, msg.Values)],
               queryError |-> queryError, c |-> c, panic |-> Nil]
    [] msg.type = "CommandCompleteMessage" ->
         IF resultset = NilResultset
         THEN [resultset |-> resultset, queryError |-> queryError, c |-> c,
               panic |-> NilDereference]
         ELSE [resultset |-> [resultset EXCEPT !.Result = msg.Result],
               queryError |-> queryError, c |-> c, panic |-> Nil]
    [] OTHER ->
         [resultset |-> resultset, queryError |-> queryError,
          c |-> handleStatelessMessage(c, msg).c,
          panic |-> handleStatelessMessage(c, msg).panic]

\* Mutant of Close: the connection is reset only when the terminate request
\* was written.
CloseResetsOnSuccess(c, up) ==
  [c |-> IF sendMessage(c, up) = Nil THEN resetConnection(c) ELSE c,
   err |-> sendMessage(c, up),
   wrote |-> sendMessage(c, up) = Nil]

\* Close: sends the terminate request, recovers the panic of a failed send
\* into err, and resets the connection whether or not the send succeeded.
\* The connection afterwards, the error returned and whether the terminate
\* request was written.
Close(c, up) ==
  [c |-> resetConnection(c),
   err |-> sendMessage(c, up),
   wrote |-> sendMessage(c, up) = Nil]

\* ------------------------------------------------------------ inputs
Frame(tag, body) == [io |-> "ok", tag |-> tag, size |-> MinMessageSize + 1, body |-> body]

\* Failed reads and undecodable frames: a short read, a declared length
\* below four, an unknown tag, a body too short for its type.
IoFailure == [io |-> "err"]
BadFrames ==
  { [io |-> "ok", tag |-> "D", size |-> MinMessageSize - 1, body |-> [short |-> TRUE]],
    Frame("X", [short |-> FALSE]),
    Frame("S", [short |-> TRUE]) }

ErrorFields == [f \in {"S", "C", "M"} |->
                  CASE f = "S" -> "ERROR" [] f = "C" -> "42601" [] f = "M" -> "syntax error"]
ErrorResponseFrame == Frame("E", [Fields |-> ErrorFields])
ReadyFrames == { Frame("Z", [TransactionStatus |-> s]) : s \in {"I", "T"} }
RowDescriptionFrame == Frame("T", [Fields |-> << [Name |-> "n"] >>])
DataRowFrames == { Frame("D", [Values |-> v]) : v \in { <<"5">>, <<NullValue, "">> } }
CommandCompleteFrame == Frame("C", [Result |-> "SELECT 1"])
EmptyQueryFrame == Frame("I", [empty |-> TRUE])
AuthFrames ==
  { Frame("R", [AuthCode |-> a]) :
      a \in {AuthenticationOK, AuthenticationCleartextPassword, AuthenticationMD5Password} }

\* What the server may deliver during the handshake and during a Query.
HandshakeItems ==
  AuthFrames \cup ReadyFrames \cup BadFrames
  \cup { ErrorResponseFrame, RowDescriptionFrame, IoFailure,
         Frame("S", [Name |-> "x", Value |-> "1"]),
         Frame("S", [Name |-> "x", Value |-> "2"]),
         Frame("S", [Name |-> "y", Value |-> "1"]),
         Frame("K", [Pid |-> 42, Key |-> 99]),
         Frame("K", [Pid |-> 7, Key |-> 8]) }
QueryItems ==
  ReadyFrames \cup DataRowFrames \cup BadFrames
  \cup { RowDescriptionFrame, CommandCompleteFrame, ErrorResponseFrame,
         EmptyQueryFrame, IoFailure,
         Frame("S", [Name |-> "x", Value |-> "2"]),
         Frame("R", [AuthCode |-> AuthenticationOK]) }

\* The one-byte reply to the SSL request; "" is the read that got no byte.
SslReplies == {"S", "N", ""}

ConnectionInfos == [SslConfig : BOOLEAN, Password : {"secret"}]

\* ------------------------------------------------------------ state
VARIABLES
  connection,  \* the Connection: l, socket, parameters, backendPid, backendKey, transactionStatus
  netUp,       \* whether the transport still carries bytes
  info,        \* the ConnectionInfo given to Connect
  pc,          \* each thread's position
  trace,       \* per thread: what its current operation has read
  out,         \* per thread: the messages its current operation has written
  resultset,   \* per caller: Query's named result
  err,         \* per thread: the named error result (connectionError, queryError, err)
  fatal        \* history: a Query has returned a failure it recovered from a panic

vars == <<connection, netUp, info, pc, trace, out, resultset, err, fatal>>

\* What c.receiveMessage reads: nothing arrives on a socket that is not
\* open or on a broken network.
Arrives(c, up, item) == IF c.socket = "open" /\ up THEN item ELSE IoFailure

\* ------------------------------------------------------------ Connect
\* Mutant of ConnectRecover: the recovery function does not reset the
\* connection.
ConnectRecoverNoReset(c, r) ==
  [c |-> [c EXCEPT !.l = Unlocked],
   err |-> IF IsError(r) THEN r ELSE Nil,
   pc |-> IF IsError(r) THEN "failed" ELSE "panicked"]

\* Connect's deferred calls after a panic r: Unlock, then the recovery
\* function: resetConnection, then connectionError = r.(error), which
\* panics anew when r is not an error.
ConnectRecover(c, r) ==
  [c |-> resetConnection([c EXCEPT !.l = Unlocked]),
   err |-> IF IsError(r) THEN r ELSE Nil,
   pc |-> IF IsError(r) THEN "failed" ELSE "panicked"]

ConnectFails(c, r) ==
  /\ connection' = ConnectRecover(c, r).c
  /\ err' = [err EXCEPT ![Connector] = ConnectRecover(c, r).err]
  /\ pc' = [pc EXCEPT ![Connector] = ConnectRecover(c, r).pc]

StartupMessage == [type |-> "StartupMessage", User |-> "dbadmin", Database |-> ""]

\* connection.parameters = make(...); initConnection's sendMessage(StartupMessage).
ConnectStartup(c) ==
  LET c1 == [c EXCEPT !.parameters = EmptyMap]
  IN IF sendMessage(c1, netUp) # Nil
     THEN ConnectFails(c1, sendMessage(c1, netUp)) /\ UNCHANGED out
     ELSE /\ connection' = c1
          /\ out' = [out EXCEPT ![Connector] = Append(@, StartupMessage)]
          /\ pc' = [pc EXCEPT ![Connector] = "initConnection"]
          /\ UNCHANGED err

\* Connect up to its first read: Lock, Dial, then with TLS the SSL request,
\* without TLS the startup request.
ConnectDial ==
  /\ pc[Connector] = "Connect"
  /\ \E dialed \in BOOLEAN :
       LET c0 == [connection EXCEPT !.l = Connector]
           c1 == [c0 EXCEPT !.socket = "open"]
       IN IF ~dialed
          THEN ConnectFails(c0, DialError) /\ UNCHANGED out
          ELSE IF info.SslConfig
          THEN IF sendMessage(c1, netUp) # Nil
               THEN ConnectFails(c1, sendMessage(c1, netUp)) /\ UNCHANGED out
               ELSE /\ connection' = c1
                    /\ out' = [out EXCEPT ![Connector] =
                                 Append(@, [type |-> "SSLRequestMessage"])]
                    /\ pc' = [pc EXCEPT ![Connector] = "sslResponse"]
                    /\ UNCHANGED err
          ELSE ConnectStartup(c1)
  /\ UNCHANGED <<netUp, info, trace, resultset, fatal>>

\* Mutant of sslResponse: a refusal falls back to the plain socket.
sslResponseFallsBack(byte) == IF byte \in {"S", "N"} THEN Nil ELSE SslNotSupported

\* What Connect does with the byte read in reply to the SSL request: the
\* panic raised (Nil to go on with the TLS handshake).
sslResponse(byte) == IF byte = "S" THEN Nil ELSE SslNotSupported

\* The reply to the SSL request, the TLS handshake, the startup request.
ConnectSSL ==
  /\ pc[Connector] = "sslResponse"
  /\ \E reply \in SslReplies, handshaken \in BOOLEAN :
       LET byte == IF netUp THEN reply ELSE ""
       IN /\ trace' = [trace EXCEPT ![Connector] = Append(@, [io |-> "byte", byte |-> byte])]
          /\ IF sslResponse(byte) # Nil
             THEN ConnectFails(connection, sslResponse(byte)) /\ UNCHANGED out
             ELSE IF ~handshaken
             THEN ConnectFails(connection, TlsError) /\ UNCHANGED out
             ELSE ConnectStartup(connection)
  /\ UNCHANGED <<netUp, info, resultset, fatal>>

\* One iteration of initConnection's loop: receive a message; on
\* ReadyForQuery Connect returns the connection, unlocked.
InitConnection ==
  /\ pc[Connector] = "initConnection"
  /\ Len(trace[Connector]) < MaxHandshakeFrames + (IF info.SslConfig THEN 1 ELSE 0)
  /\ \E item \in HandshakeItems :
       LET r == c_receiveMessage(connection, netUp, item)
           b == initConnectionBody(connection, info, r.msg)
       IN /\ trace' = [trace EXCEPT ![Connector] =
                         Append(@, Arrives(connection, netUp, item))]
          /\ IF r.panic # Nil
             THEN ConnectFails(connection, r.panic) /\ UNCHANGED out
             ELSE IF isReadyForQuery(r.msg)
             THEN /\ connection' = [recordTransactionStatus(connection, r.msg)
                                      EXCEPT !.l = Unlocked]
                  /\ pc' = [pc EXCEPT ![Connector] = "connected"]
                  /\ UNCHANGED <<out, err>>
             ELSE IF b.panic # Nil
             THEN ConnectFails(b.c, b.panic) /\ UNCHANGED out
             ELSE IF b.send = Nil
             THEN connection' = b.c /\ UNCHANGED <<out, err, pc>>
             ELSE IF sendMessage(b.c, netUp) # Nil
             THEN ConnectFails(b.c, sendMessage(b.c, netUp)) /\ UNCHANGED out
             ELSE /\ connection' = b.c
                  /\ out' = [out EXCEPT ![Connector] = Append(@, b.send)]
                  /\ UNCHANGED <<err, pc>>
  /\ UNCHANGED <<netUp, info, resultset, fatal>>

\* The transport breaks: from now on every read and write fails.
NetworkFails ==
  /\ netUp
  /\ netUp' = FALSE
  /\ UNCHANGED <<connection, info, pc, trace, out, resultset, err, fatal>>

\* ------------------------------------------------------------ Query, Close
TerminateMessage == [type |-> "TerminateMessage"]
QueryMessage == [type |-> "QueryMessage", SQL |-> "select 1"]

\* Mutant of QueryRecover: the recovery function does not call Close.
QueryRecoverWithoutClose(c, up, queryError, r) ==
  [c |-> [c EXCEPT !.l = Unlocked],
   wrote |-> FALSE,
   err |-> IF IsError(r) THEN r ELSE queryError,
   pc |-> IF IsError(r) THEN "Query.returned" ELSE "Query.panicked"]

\* Mutant of QueryRecover: the lock is not released after a failure.
QueryRecoverKeepsLock(c, up, queryError, r) ==
  [c |-> Close(c, up).c,
   wrote |-> Close(c, up).wrote,
   err |-> IF IsError(r) THEN r ELSE queryError,
   pc |-> IF IsError(r) THEN "Query.returned" ELSE "Query.panicked"]

\* Query's deferred calls after a panic r, the lock still held: the recovery
\* function calls Close (which takes no lock), then queryError =
\* r.(error), which panics anew when r is not an error; then Unlock.  The
\* named result resultset keeps what the loop had assigned, and so does
\* queryError when the assignment panics.
QueryRecover(c, up, queryError, r) ==
  [c |-> [Close(c, up).c EXCEPT !.l = Unlocked],
   wrote |-> Close(c, up).wrote,
   err |-> IF IsError(r) THEN r ELSE queryError,
   pc |-> IF IsError(r) THEN "Query.returned" ELSE "Query.panicked"]

QueryFails(p, c, r) ==
  /\ connection' = QueryRecover(c, netUp, err[p], r).c
  /\ err' = [err EXCEPT ![p] = QueryRecover(c, netUp, err[p], r).err]
  /\ pc' = [pc EXCEPT ![p] = QueryRecover(c, netUp, err[p], r).pc]
  /\ out' = [out EXCEPT ![p] = IF QueryRecover(c, netUp, err[p], r).wrote
                               THEN Append(@, TerminateMessage) ELSE @]
  /\ fatal' = (fatal \/ IsError(r))

\* A caller that holds the connection and is in no operation.
Free(p) == pc[p] \in {"idle", "Query.returned", "Close.returned"}

\* A caller calls Query: the named results start nil.
QueryCall(p) ==
  /\ Free(p)
  /\ pc' = [pc EXCEPT ![p] = "Query.Lock"]
  /\ trace' = [trace EXCEPT ![p] = <<>>]
  /\ out' = [out EXCEPT ![p] = <<>>]
  /\ resultset' = [resultset EXCEPT ![p] = NilResultset]
  /\ err' = [err EXCEPT ![p] = Nil]
  /\ UNCHANGED <<connection, netUp, info, fatal>>

\* Mutant of QueryLock: the request is sent without waiting for the lock.
QueryLockWithoutWaiting(p) ==
  /\ pc[p] = "Query.Lock"
  /\ LET c1 == [connection EXCEPT !.l = p]
     IN IF sendMessage(c1, netUp) # Nil
        THEN QueryFails(p, c1, sendMessage(c1, netUp))
        ELSE /\ connection' = c1
             /\ out' = [out EXCEPT ![p] = Append(@, QueryMessage)]
             /\ pc' = [pc EXCEPT ![p] = "Query.receive"]
             /\ UNCHANGED <<err, fatal>>
  /\ UNCHANGED <<netUp, info, trace, resultset>>

\* c.l.Lock() and the query request.
QueryLock(p) ==
  /\ pc[p] = "Query.Lock"
  /\ connection.l = Unlocked
  /\ LET c1 == [connection EXCEPT !.l = p]
     IN IF sendMessage(c1, netUp) # Nil
        THEN QueryFails(p, c1, sendMessage(c1, netUp))
        ELSE /\ connection' = c1
             /\ out' = [out EXCEPT ![p] = Append(@, QueryMessage)]
             /\ pc' = [pc EXCEPT ![p] = "Query.receive"]
             /\ UNCHANGED <<err, fatal>>
  /\ UNCHANGED <<netUp, info, trace, resultset>>

\* One iteration of Query's loop: receive a message; on ReadyForQuery
\* Query returns its named results and unlocks.
QueryReceive(p) ==
  /\ pc[p] = "Query.receive"
  /\ Len(trace[p]) < MaxQueryFrames
  /\ \E item \in QueryItems :
       LET r == c_receiveMessage(connection, netUp, item)
           b == QueryBody(resultset[p], err[p], connection, r.msg)
       IN /\ trace' = [trace EXCEPT ![p] = Append(@, Arrives(connection, netUp, item))]
          /\ IF r.panic # Nil
             THEN QueryFails(p, connection, r.panic) /\ UNCHANGED resultset
             ELSE IF isReadyForQuery(r.msg)
             THEN /\ connection' = [recordTransactionStatus(connection, r.msg)
                                      EXCEPT !.l = Unlocked]
                  /\ pc' = [pc EXCEPT ![p] = "Query.returned"]
                  /\ UNCHANGED <<out, err, resultset, fatal>>
             ELSE IF b.panic # Nil
             THEN /\ QueryFails(p, b.c, b.panic)
                  /\ resultset' = [resultset EXCEPT ![p] = b.resultset]
             ELSE /\ connection' = b.c
                  /\ resultset' = [resultset EXCEPT ![p] = b.resultset]
                  /\ err' = [err EXCEPT ![p] = b.queryError]
                  /\ UNCHANGED <<out, pc, fatal>>
  /\ UNCHANGED <<netUp, info>>

\* A caller calls Close, which takes no lock.
CloseCall(p) ==
  /\ Free(p)
  /\ connection' = Close(connection, netUp).c
  /\ err' = [err EXCEPT ![p] = Close(connection, netUp).err]
  /\ out' = [out EXCEPT ![p] = IF Close(connection, netUp).wrote
                               THEN <<TerminateMessage>> ELSE <<>>]
  /\ pc' = [pc EXCEPT ![p] = "Close.returned"]
  /\ trace' = [trace EXCEPT ![p] = <<>>]
  /\ resultset' = [resultset EXCEPT ![p] = NilResultset]
  /\ UNCHANGED <<netUp, info, fatal>>

\* ------------------------------------------------------------ specifications
NoThread == [t \in Threads |-> <<>>]

\* Connect, from the construction of the Connection to its return.
InitConnect ==
  /\ connection = NewConnection
  /\ netUp = TRUE
  /\ info \in ConnectionInfos
  /\ pc = [t \in Threads |-> IF t = Connector THEN "Connect" ELSE "absent"]
  /\ trace = NoThread
  /\ out = NoThread
  /\ resultset = [t \in Threads |-> NilResultset]
  /\ err = [t \in Threads |-> Nil]
  /\ fatal = FALSE

NextConnect == ConnectDial \/ ConnectSSL \/ InitConnection \/ NetworkFails

SpecConnect == InitConnect /\ [][NextConnect]_vars

\* The connection Connect returns after the handshake
\* AuthenticationOK, ParameterStatus(x, 1), BackendKeyData(42, 99),
\* ReadyForQuery(I).
Connected ==
  [l |-> Unlocked, socket |-> "open", parameters |-> MapSet(EmptyMap, "x", "1"),
   backendPid |-> 42, backendKey |-> 99, transactionStatus |-> "I"]

\* The operations of one caller on a connected connection.
InitQuery ==
  /\ connection = Connected
  /\ netUp = TRUE
  /\ info = [SslConfig |-> FALSE, Password |-> "secret"]
  /\ pc = [t \in Threads |-> CASE t = Connector -> "connected"
                               [] t = "a" -> "idle"
                               [] OTHER -> "absent"]
  /\ trace = NoThread
  /\ out = NoThread
  /\ resultset = [t \in Threads |-> NilResultset]
  /\ err = [t \in Threads |-> Nil]
  /\ fatal = FALSE

NextQuery ==
  \/ \E p \in Callers : QueryCall(p) \/ QueryLock(p) \/ QueryReceive(p) \/ CloseCall(p)
  \/ NetworkFails

SpecQuery == InitQuery /\ [][NextQuery]_vars

\* ------------------------------------------------------------ claims
\* What was read is a well-formed frame with this tag.
Is(item, tag) ==
  /\ item.io = "ok"
  /\ item.size >= MinMessageSize
  /\ item.tag = tag
  /\ ~Short(item.body)

\* The response RowDescription, DataRow*, CommandComplete, ReadyForQuery.
RowsResponse(tr) ==
  /\ Len(tr) >= 3
  /\ Is(tr[1], "T")
  /\ \A i \in 2..(Len(tr) - 2) : Is(tr[i], "D")
  /\ Is(tr[Len(tr) - 1], "C")
  /\ Is(tr[Len(tr)], "Z")

\* C1: a Query answered by one RowDescription, any number of DataRows, one
\* CommandComplete and ReadyForQuery returns a nil error and a resultset
\* whose Fields are the RowDescription's, whose Rows are the DataRows' value
\* lists in arrival order and whose Result is the CommandComplete tag.
C1_RowsResponseReturned ==
  \A p \in Callers :
    (pc[p] = "Query.returned" /\ RowsResponse(trace[p])) =>
      /\ err[p] = Nil
      /\ resultset[p] # NilResultset
      /\ resultset[p].Fields = trace[p][1].body.Fields
      /\ resultset[p].Rows =
           [i \in 1..(Len(trace[p]) - 3) |-> [Values |-> trace[p][i + 1].body.Values]]
      /\ resultset[p].Result = trace[p][Len(trace[p]) - 1].body.Result

\* C1 happens: a Query returned after two different DataRows.
C1_Witness ==
  \E p \in Callers :
    /\ pc[p] = "Query.returned"
    /\ RowsResponse(trace[p])
    /\ Len(trace[p]) = 5
    /\ trace[p][2] # trace[p][3]

\* C2: a Query answered by CommandComplete with no RowDescription before it
\* returns a nil error and a non-nil resultset with that Result and no rows,
\* and the connection is not torn down.
C2_CommandCompleteOnly ==
  \A p \in Callers :
    (/\ pc[p] \in {"Query.returned", "Query.panicked"}
     /\ Len(trace[p]) >= 1
     /\ Is(trace[p][1], "C")) =>
      /\ err[p] = Nil
      /\ resultset[p] # NilResultset
      /\ resultset[p].Result = trace[p][1].body.Result
      /\ resultset[p].Rows = <<>>
      /\ connection.socket = "open"

\* C3: a Query answered by an ErrorResponse and ReadyForQuery only returns a
\* nil resultset and an error whose Code() is the 'C' field of the
\* ErrorResponse.
C3_ErrorResponseReturned ==
  \A p \in Callers :
    (/\ pc[p] = "Query.returned"
     /\ Len(trace[p]) = 2
     /\ Is(trace[p][1], "E")
     /\ Is(trace[p][2], "Z")) =>
      /\ resultset[p] = NilResultset
      /\ err[p] # Nil
      /\ Code(err[p]) = trace[p][1].body.Fields["C"]

\* C3 happens: a Query returned after ErrorResponse(42601), ReadyForQuery.
C3_Witness ==
  \E p \in Callers :
    /\ pc[p] = "Query.returned"
    /\ Len(trace[p]) = 2
    /\ Is(trace[p][1], "E")
    /\ Is(trace[p][2], "Z")
    /\ trace[p][1].body.Fields["C"] = "42601"

\* The response holds a RowDescription and an ErrorResponse or empty-query
\* notice, in either order, and ends with ReadyForQuery.
RowsAndError(tr) ==
  /\ Len(tr) >= 3
  /\ Is(tr[Len(tr)], "Z")
  /\ \E i \in 1..Len(tr) : Is(tr[i], "T")
  /\ \E i \in 1..Len(tr) : Is(tr[i], "E") \/ Is(tr[i], "I")

\* C4: when the response holds both a RowDescription and an ErrorResponse
\* or empty-query notice before ReadyForQuery, Query returns the recorded
\* error and a nil resultset.
C4_ErrorTakesPrecedence ==
  \A p \in Callers :
    (pc[p] = "Query.returned" /\ RowsAndError(trace[p])) =>
      /\ err[p] # Nil
      /\ resultset[p] = NilResultset

Last(S) == CHOOSE i \in S : \A j \in S : j <= i
ParameterFrames(tr, name) ==
  { i \in 1..Len(tr) : Is(tr[i], "S") /\ tr[i].body.Name = name }
KeyDataFrames(tr) == { i \in 1..Len(tr) : Is(tr[i], "K") }
ReadyFrameIndexes(tr) == { i \in 1..Len(tr) : Is(tr[i], "Z") }

\* C5: when Connect has returned success, the handshake read ends with the
\* only ReadyForQuery read, transactionStatus is its status byte,
\* parameters holds for each name the value of the last ParameterStatus
\* read for it (and no other name), and backendPid/backendKey are those of
\* the last BackendKeyData read; before a ReadyForQuery is read Connect has
\* not returned success.
C5_HandshakeState ==
  LET tr == trace[Connector]
  IN /\ pc[Connector] = "connected" =>
          /\ ReadyFrameIndexes(tr) = {Len(tr)}
          /\ connection.transactionStatus = tr[Len(tr)].body.TransactionStatus
          /\ DOMAIN connection.parameters =
               { n \in {"x", "y"} : ParameterFrames(tr, n) # {} }
          /\ \A n \in DOMAIN connection.parameters :
               connection.parameters[n] = tr[Last(ParameterFrames(tr, n))].body.Value
          /\ IF KeyDataFrames(tr) = {}
             THEN connection.backendPid = 0 /\ connection.backendKey = 0
             ELSE /\ connection.backendPid = tr[Last(KeyDataFrames(tr))].body.Pid
                  /\ connection.backendKey = tr[Last(KeyDataFrames(tr))].body.Key
          /\ err[Connector] = Nil
          /\ connection.socket = "open"
     /\ pc[Connector] \in {"Connect", "sslResponse", "initConnection"} =>
          ReadyFrameIndexes(tr) = {}

\* C5 happens: Connect returned after two values of parameter x, a
\* BackendKeyData and ReadyForQuery.
C5_Witness ==
  LET tr == trace[Connector]
  IN /\ pc[Connector] = "connected"
     /\ Len(tr) = 4
     /\ ParameterFrames(tr, "x") = {1, 2}
     /\ tr[1].body.Value # tr[2].body.Value
     /\ KeyDataFrames(tr) = {3}

\* The step reads an ErrorResponse during the handshake.
ReadsErrorResponse ==
  /\ pc[Connector] = "initConnection"
  /\ Len(trace'[Connector]) = Len(trace[Connector]) + 1
  /\ Is(trace'[Connector][Len(trace'[Connector])], "E")

\* C6: a step of the handshake that reads an ErrorResponse makes Connect
\* fail with that ErrorResponse as its error, closes the socket and sends
\* nothing; once Connect has failed it reads and sends nothing more.
C6_HandshakeErrorResponse ==
  [][ /\ ReadsErrorResponse =>
           /\ pc'[Connector] = "failed"
           /\ err'[Connector] =
                [type |-> "ErrorResponseMessage",
                 Fields |-> trace'[Connector][Len(trace'[Connector])].body.Fields]
           /\ connection'.socket = "closed"
           /\ out'[Connector] = out[Connector]
      /\ pc[Connector] = "failed" =>
           /\ pc'[Connector] = "failed"
           /\ trace'[Connector] = trace[Connector]
           /\ out'[Connector] = out[Connector]
           /\ err'[Connector] = err[Connector]
    ]_vars

\* C6 happens: Connect failed on an ErrorResponse read after a password
\* exchange.
C6_Witness ==
  LET tr == trace[Connector]
  IN /\ pc[Connector] = "failed"
     /\ Len(tr) = 2
     /\ Is(tr[2], "E")
     /\ err[Connector].type = "ErrorResponseMessage"
     /\ Len(out[Connector]) = 2

Challenges(tr, codes) ==
  { i \in 1..Len(tr) : Is(tr[i], "R") /\ tr[i].body.AuthCode \in codes }
Passwords(o) == { i \in 1..Len(o) : o[i].type = "PasswordMessage" }

\* C7: during Connect one password response, carrying the configured
\* password and the cleartext-password code, is sent for each
\* cleartext-password challenge read and none for any other challenge; a
\* challenge whose code is neither OK nor cleartext-password is the last
\* thing read, and Connect fails with AuthenticationMethodNotSupported and
\* the socket closed.
C7_Authentication ==
  LET tr == trace[Connector]
      o == out[Connector]
  IN /\ Cardinality(Passwords(o)) =
          Cardinality(Challenges(tr, {AuthenticationCleartextPassword}))
     /\ \A i \in Passwords(o) :
          /\ o[i].Password = info.Password
          /\ o[i].AuthenticationMethod = AuthenticationCleartextPassword
     /\ \A i \in Challenges(tr, {AuthenticationMD5Password}) :
          /\ i = Len(tr)
          /\ pc[Connector] = "failed"
          /\ err[Connector] = AuthenticationMethodNotSupported
          /\ connection.socket = "closed"

\* C7 happens: two cleartext-password challenges, an OK challenge and an
\* unsupported one were read.
C7_Witness ==
  LET tr == trace[Connector]
  IN /\ Cardinality(Challenges(tr, {AuthenticationCleartextPassword})) = 2
     /\ Cardinality(Challenges(tr, {AuthenticationOK})) = 1
     /\ Cardinality(Challenges(tr, {AuthenticationMD5Password})) = 1
     /\ pc[Connector] = "failed"

\* The byte read in reply to the SSL request was not 'S'.
SslRefused ==
  /\ Len(trace[Connector]) >= 1
  /\ trace[Connector][1].io = "byte"
  /\ trace[Connector][1].byte # "S"

\* C8: with TLS configured, when the byte read in reply to the SSL request
\* is not 'S' (or no byte was read), Connect fails with SslNotSupported,
\* has sent nothing but the SSL request, reads nothing more and closes the
\* socket.
C8_SslRefused ==
  SslRefused =>
    /\ info.SslConfig
    /\ pc[Connector] = "failed"
    /\ err[Connector] = SslNotSupported
    /\ out[Connector] = << [type |-> "SSLRequestMessage"] >>
    /\ Len(trace[Connector]) = 1
    /\ connection.socket = "closed"

\* C8 happens: no byte could be read in reply to the SSL request.
C8_Witness ==
  /\ SslRefused
  /\ trace[Connector][1].byte = ""
  /\ pc[Connector] = "failed"

\* The session fields that resetConnection assigns read as zero/empty.
SessionReset(c) ==
  /\ c.parameters = EmptyMap
  /\ c.backendPid = 0
  /\ c.backendKey = 0

\* The step in which an operation of caller p ends.
Ends(p) ==
  /\ QueryLock(p) \/ QueryReceive(p) \/ CloseCall(p)
  /\ pc'[p] \in {"Query.returned", "Query.panicked", "Close.returned"}

\* Every operation that ends once a Query has returned a fatal failure
\* returns an error.
FailsAfterFatal ==
  \A p \in Callers :
    (fatal /\ Ends(p)) =>
      /\ pc'[p] \in {"Query.returned", "Close.returned"}
      /\ err'[p] # Nil

C10_Close ==
  [][ \A p \in Callers :
        CloseCall(p) =>
          /\ connection'.socket = "closed"
          /\ SessionReset(connection')
          /\ IF connection.socket = "open" /\ netUp
             THEN err'[p] = Nil /\ out'[p] = <<TerminateMessage>>
             ELSE err'[p] = WriteError /\ out'[p] = <<>>
    ]_vars

\* C10 happens: a Close on an open socket could not write the terminate
\* request (the network was down and no Query had failed before).
C10_Witness ==
  /\ pc["a"] = "Close.returned"
  /\ err["a"] = WriteError
  /\ ~fatal
  /\ ~netUp
  /\ connection.socket = "closed"
  /\ connection.transactionStatus = "T"

\* What was read is a frame whose tag has no factory method.
UnknownTag(item) ==
  /\ item.io = "ok"
  /\ item.size >= MinMessageSize
  /\ item.tag \notin KnownTags

\* C11: when Connect or Query reads a frame whose tag is not one of R, Z,
\* E, I, S, K, T, C, D, that frame is the last thing the operation reads,
\* the operation returns an error to its caller (it is not left by a panic)
\* and the connection is torn down.
C11_UnknownTagReturnsFailure ==
  \A t \in Threads :
    \A i \in 1..Len(trace[t]) :
      UnknownTag(trace[t][i]) =>
        /\ i = Len(trace[t])
        /\ pc[t] \in {"failed", "Query.returned"}
        /\ err[t] # Nil
        /\ connection.socket = "closed"
        /\ SessionReset(connection)

\* ------------------------------------------------------------ two callers
\* Frames the server may deliver during one Query when two callers share
\* the connection.
MaxConcurrentFrames == 3

\* What the server delivers then: ReadyForQuery, an ErrorResponse, an
\* empty-query notice, a RowDescription, a frame with an unknown tag, a
\* failed read.
ConcurrentItems ==
  ReadyFrames \cup {ErrorResponseFrame, EmptyQueryFrame, RowDescriptionFrame,
                    Frame("X", [short |-> FALSE]), IoFailure}

\* One iteration of Query's loop on what the server delivers to two callers.
ConcurrentReceive(p) ==
  /\ QueryReceive(p)
  /\ Len(trace'[p]) <= MaxConcurrentFrames
  /\ trace'[p][Len(trace'[p])] \in ConcurrentItems

\* Two callers share a connected connection.
InitConcurrent ==
  /\ connection = Connected
  /\ netUp = TRUE
  /\ info = [SslConfig |-> FALSE, Password |-> "secret"]
  /\ pc = [t \in Threads |-> IF t = Connector THEN "connected" ELSE "idle"]
  /\ trace = NoThread
  /\ out = NoThread
  /\ resultset = [t \in Threads |-> NilResultset]
  /\ err = [t \in Threads |-> Nil]
  /\ fatal = FALSE

NextConcurrent ==
  \/ \E p \in Callers :
       QueryCall(p) \/ QueryLock(p) \/ ConcurrentReceive(p) \/ CloseCall(p)
  \/ NetworkFails

SpecConcurrent == InitConcurrent /\ [][NextConcurrent]_vars

\* Caller p has sent its query request and has not left Query.
InFlight(p) == pc[p] = "Query.receive"

\* C12: two Query calls on one connection never overlap: a caller sends its
\* query request only when no other caller's request is in flight, at most
\* one request is in flight at any moment, and a Query reads a frame only
\* while it holds the lock and no other request is in flight.
C12_QueriesDoNotOverlap ==
  [][ \A p \in Callers :
        /\ (InFlight(p)' /\ ~InFlight(p)) =>
             /\ out'[p] = <<QueryMessage>>
             /\ \A q \in Callers \ {p} : ~InFlight(q) /\ ~InFlight(q)'
        /\ InFlight(p)' => connection'.l = p
        /\ trace'[p] # trace[p] /\ trace'[p] # <<>> =>
             /\ InFlight(p)
             /\ connection.l = p
             /\ \A q \in Callers \ {p} : ~InFlight(q)
    ]_vars

\* C12 happens: caller b has called Query and waits for the lock while the
\* Query of caller a, which has read a frame, is in flight.
C12_Witness ==
  /\ InFlight("a")
  /\ Len(trace["a"]) >= 1
  /\ pc["b"] = "Query.Lock"

\* The step in which caller p writes the terminate request.
SendsTerminate(p) ==
  /\ out'[p] # out[p]
  /\ out'[p] # <<>>
  /\ out'[p][Len(out'[p])] = TerminateMessage

\* C13: while a Query is in flight and stays in flight, no Close of another
\* caller takes effect: no other caller writes the terminate request, the
\* socket is not closed and backendPid, backendKey and the parameters are
\* not reset.
C13_CloseWaitsForQuery ==
  [][ \A q \in Callers :
        (InFlight(q) /\ InFlight(q)') =>
          /\ \A p \in Callers \ {q} : ~SendsTerminate(p)
          /\ connection'.socket = connection.socket
          /\ connection'.backendPid = connection.backendPid
          /\ connection'.backendKey = connection.backendKey
          /\ connection.parameters # EmptyMap => connection'.parameters # EmptyMap
    ]_vars

\* The message types Query records as the query's error.
ServerErrors == {"ErrorResponseMessage", "EmptyQueryMessage"}

\* The step in which caller p reads an ErrorResponse or empty-query notice.
ReadsServerError(p) ==
  /\ InFlight(p)
  /\ Len(trace'[p]) = Len(trace[p]) + 1
  /\ Is(trace'[p][Len(trace'[p])], "E") \/ Is(trace'[p][Len(trace'[p])], "I")

\* The step in which the Query of caller p returns a server-reported error.
ReturnsServerError(p) ==
  /\ InFlight(p)
  /\ pc'[p] = "Query.returned"
  /\ err'[p].type \in ServerErrors

\* C14: a step of Query that reads an ErrorResponse or empty-query notice
\* records it as the query's error, does not return and leaves the
\* connection as it was; a Query returns a server-reported error only in
\* the step that reads the one ReadyForQuery of its response, with the
\* socket open and parameters, backendPid and backendKey as they were; and
\* a Query that sends its request starts with nothing read.
C14_ErrorDrainsToReady ==
  [][ \A p \in Callers :
        /\ ReadsServerError(p) =>
             /\ InFlight(p)'
             /\ err'[p].type \in ServerErrors
             /\ connection' = connection
        /\ ReturnsServerError(p) =>
             /\ ReadyFrameIndexes(trace'[p]) = {Len(trace'[p])}
             /\ connection'.socket = "open"
             /\ connection' = [connection EXCEPT
                                 !.l = Unlocked,
                                 !.transactionStatus =
                                   trace'[p][Len(trace'[p])].body.TransactionStatus]
        /\ (InFlight(p)' /\ ~InFlight(p)) => trace'[p] = <<>>
    ]_vars

\* C14 happens: the Query of caller a returned the error of an
\* ErrorResponse at ReadyForQuery(T), and the Query of caller b, which
\* consumed its ReadyForQuery(I) after that, returned the resultset of its
\* RowDescription and no error.
C14_Witness ==
  /\ pc["a"] = "Query.returned"
  /\ err["a"].type = "ErrorResponseMessage"
  /\ trace["a"] = <<ErrorResponseFrame, Frame("Z", [TransactionStatus |-> "T"])>>
  /\ pc["b"] = "Query.returned"
  /\ err["b"] = Nil
  /\ resultset["b"] # NilResultset
  /\ resultset["b"].Fields = RowDescriptionFrame.body.Fields
  /\ trace["b"][Len(trace["b"])] = Frame("Z", [TransactionStatus |-> "I"])
  /\ connection.transactionStatus = "I"
  /\ connection.socket = "open"

\* The frames of tr that are DataRows with no RowDescription before them.
EarlyDataRows(tr) ==
  { i \in 1..Len(tr) : Is(tr[i], "D") /\ \A j \in 1..(i - 1) : ~Is(tr[j], "T") }

\* C15: a DataRow read by Query before any RowDescription of that Query is
\* the last thing the Query reads: Query returns an error and a nil
\* resultset (no row is recorded), and the socket is closed and
\* parameters, backendPid and backendKey are reset when it returns.
C15_DataRowBeforeRowDescription ==
  \A p \in Callers :
    \A i \in EarlyDataRows(trace[p]) :
      /\ i = Len(trace[p])
      /\ pc[p] = "Query.returned"
      /\ err[p] = NilDereference
      /\ resultset[p] = NilResultset
      /\ connection.socket = "closed"
      /\ SessionReset(connection)
      /\ connection.l = Unlocked

\* C15 happens: a Query read an empty-query notice and then a DataRow.
C15_Witness ==
  /\ pc["a"] = "Query.returned"
  /\ Len(trace["a"]) = 2
  /\ Is(trace["a"][1], "I")
  /\ EarlyDataRows(trace["a"]) = {2}
  /\ out["a"] = <<QueryMessage, TerminateMessage>>

\* The frames of tr that are recognized messages the handshake does not
\* expect: RowDescription, DataRow, CommandComplete, empty-query notice.
UnexpectedInHandshake(tr) ==
  { i \in 1..Len(tr) : \E tag \in {"T", "D", "C", "I"} : Is(tr[i], tag) }

\* C16: a RowDescription, DataRow, CommandComplete or empty-query notice
\* read during the handshake is the last thing Connect reads: Connect
\* returns an error (it is not left by a panic) and the socket is closed.
C16_UnexpectedHandshakeMessage ==
  \A i \in UnexpectedInHandshake(trace[Connector]) :
    /\ i = Len(trace[Connector])
    /\ pc[Connector] = "failed"
    /\ err[Connector] # Nil
    /\ connection.socket = "closed"

\* C17: the lock is held only by a caller whose Query is in flight: a
\* Query that has returned, or that a re-raised panic has left, holds the
\* lock no longer, so whenever no Query is in flight the lock is free for
\* the next Query.
C17_LockReleased ==
  /\ connection.l \in Callers \cup {Unlocked}
  /\ \A p \in Callers : connection.l = p => InFlight(p)
  /\ (\A p \in Callers : ~InFlight(p)) => connection.l = Unlocked

\* C17 happens: the Query of caller a was left by a re-raised panic after
\* its recovery function called Close, and the Query of caller b has since
\* acquired the lock and failed on the closed socket with an error.
C17_Witness ==
  /\ pc["a"] = "Query.panicked"
  /\ out["a"] = <<QueryMessage, TerminateMessage>>
  /\ pc["b"] = "Query.returned"
  /\ err["b"] = WriteError
  /\ netUp
  /\ connection.l = Unlocked

\* The Query of caller p has returned a failure its recovery function
\* recovered (a transport, decode or sequencing failure).
ReturnedFatal(p) ==
  /\ pc[p] = "Query.returned"
  /\ err[p] # Nil
  /\ err[p].type \notin ServerErrors

\* C18: when Query returns a fatal failure after it has read a
\* RowDescription, it returns a nil resultset with the error.
C18_NoPartialResultset ==
  \A p \in Callers :
    (ReturnedFatal(p) /\ \E i \in 1..Len(trace[p]) : Is(trace[p][i], "T")) =>
      resultset[p] = NilResultset

\* C19: in every resultset Query returns, each row has as many values as
\* the resultset has fields.
C19_RowWidthIsFieldCount ==
  \A p \in Callers :
    (pc[p] = "Query.returned" /\ resultset[p] # NilResultset) =>
      \A i \in 1..Len(resultset[p].Rows) :
        Len(resultset[p].Rows[i].Values) = Len(resultset[p].Fields)

\* ------------------------------------------------------------ data-row bytes
\* The longest data-row body and the largest value count the server sends.
MaxBodyLen == 11
MaxValues == 2

\* A body is a sequence of bytes 0..255; the Go slice body[a:b] is
\* SubSeq(body, a + 1, b).
\* unpackUint16, unpackUint32: big-endian.  A uint32 is kept as its two
\* 16-bit halves, its value being hi * 2^16 + lo.
unpackUint16(p) == p[1] * 2^8 + p[2]
unpackUint32(p) ==
  [hi |-> unpackUint16(SubSeq(p, 1, 2)), lo |-> unpackUint16(SubSeq(p, 3, 4))]

decodeUint16(p) ==
  IF Len(p) < 2
  THEN [v |-> 0, err |-> DecodeError("decodeUint16: A buffer should be at least 2 bytes long")]
  ELSE [v |-> unpackUint16(p), err |-> Nil]

decodeUint32(p) ==
  IF Len(p) < 4
  THEN [v |-> [hi |-> 0, lo |-> 0],
        err |-> DecodeError("decodeUint32: A buffer should be at least 4 bytes long")]
  ELSE [v |-> unpackUint32(p), err |-> Nil]

\* A value of a decoded row: the nil []byte, or a slice of the body.
NilBytes == [nil |-> TRUE]
Slice(bytes) == [nil |-> FALSE, bytes |-> bytes]

\* Mutant of isNullSize: the length 0 is taken for the NULL mark too.
isNullSizeOrZero(size) ==
  \/ size.hi = 2^16 - 1 /\ size.lo = 2^16 - 1
  \/ size.hi = 0 /\ size.lo = 0

\* size == 0xffffffff
isNullSize(size) == size.hi = 2^16 - 1 /\ size.lo = 2^16 - 1

\* offset+int(size) > bodyLen, for an int of 64 bits (amd64, arm64): the
\* conversion keeps the value and the sum cannot wrap, and a body is
\* shorter than 2^16 bytes here.  (With an int of 32 bits a size of 2^31 or
\* more converts to a negative int, the test is false and the slice
\* expression that follows panics.)
pastBody(offset, size, bodyLen) == size.hi > 0 \/ offset + size.lo > bodyLen

\* The loop of parseDataRowMessage from the value after those in values
\* on; make() has left the values not yet assigned nil.
RECURSIVE parseDataRowValues(_, _, _, _)
parseDataRowValues(body, numValues, values, offset) ==
  IF Len(values) = numValues
  THEN [Values |-> values, err |-> Nil]
  ELSE LET d == decodeUint32(SubSeq(body, offset + 1, Len(body)))
           unassigned == [k \in 1..(numValues - Len(values)) |-> NilBytes]
       IN IF d.err # Nil
          THEN [Values |-> values \o unassigned, err |-> d.err]
          ELSE IF isNullSize(d.v)
          THEN parseDataRowValues(body, numValues, Append(values, NilBytes), offset + 4)
          ELSE IF pastBody(offset + 4, d.v, Len(body))
          THEN [Values |-> values \o unassigned,
                err |-> DecodeError("parseDataRowMessage: truncated message")]
          ELSE parseDataRowValues(
                 body, numValues,
                 Append(values, Slice(SubSeq(body, offset + 4 + 1, offset + 4 + d.v.lo))),
                 offset + 4 + d.v.lo)

\* parseDataRowMessage on the bytes of a body.
parseDataRowMessageBytes(body) ==
  IF decodeUint16(body).err # Nil
  THEN [Values |-> <<>>, err |-> decodeUint16(body).err]
  ELSE parseDataRowValues(body, decodeUint16(body).v, <<>>, 2)

\* The bodies the server sends: a value count (or a body cut short within
\* it), followed by length fields and single bytes in any order.
ValueCounts == { <<0, n>> : n \in 0..MaxValues }
BodyPieces ==
  { <<0>>, <<255>>, <<0, 0, 0, 1>>, <<0, 0, 0, 2>>, <<0, 1, 0, 0>>, <<128, 0, 0, 0>> }
RECURSIVE BodyTails(_)
BodyTails(n) ==
  {<<>>} \cup UNION { { piece \o tail : tail \in BodyTails(n - Len(piece)) } :
                        piece \in { q \in BodyPieces : Len(q) <= n } }
DataRowBodies ==
  {<<>>, <<0>>}
  \cup UNION { { count \o tail : tail \in BodyTails(MaxBodyLen - 2) } : count \in ValueCounts }

\* One iteration of Query's loop that receives a DataRow frame with the
\* given bytes as its body, a RowDescription having been read.
ReceiveDataRow(p) ==
  /\ pc[p] = "Query.receive"
  /\ resultset[p] # NilResultset
  /\ resultset[p].Rows = <<>>
  /\ \E body \in DataRowBodies :
       LET r == parseDataRowMessageBytes(body)
       IN /\ trace' = [trace EXCEPT ![p] =
                         Append(@, [io |-> "ok", tag |-> "D",
                                    size |-> MinMessageSize + Len(body), body |-> body])]
          /\ IF r.err # Nil
             THEN QueryFails(p, connection, r.err) /\ UNCHANGED resultset
             ELSE /\ resultset' = [resultset EXCEPT ![p].Rows = appendRow(@, r.Values)]
                  /\ UNCHANGED <<connection, pc, out, err, fatal>>
  /\ UNCHANGED <<netUp, info>>

\* The Query of caller a has read a RowDescription.
InitDataRow ==
  /\ connection = [Connected EXCEPT !.l = "a"]
  /\ netUp = TRUE
  /\ info = [SslConfig |-> FALSE, Password |-> "secret"]
  /\ pc = [t \in Threads |-> CASE t = Connector -> "connected"
                               [] t = "a" -> "Query.receive"
                               [] OTHER -> "absent"]
  /\ trace = [NoThread EXCEPT !["a"] = <<RowDescriptionFrame>>]
  /\ out = [NoThread EXCEPT !["a"] = <<QueryMessage>>]
  /\ resultset = [t \in Threads |->
                    IF t = "a"
                    THEN [Fields |-> RowDescriptionFrame.body.Fields,
                          Rows |-> <<>>, Result |-> ""]
                    ELSE NilResultset]
  /\ err = [t \in Threads |-> Nil]
  /\ fatal = FALSE

NextDataRow == \E p \in Callers : ReceiveDataRow(p)

SpecDataRow == InitDataRow /\ [][NextDataRow]_vars

\* The data-row wire format, read from the body without the parser: the
\* four bytes of the length field at offset o, the NULL mark, and the
\* declared length (a field with a nonzero byte among its upper two
\* declares 2^16 bytes or more, past the end of any body here).
LengthField(body, o) == SubSeq(body, o + 1, o + 4)
NullMark == <<255, 255, 255, 255>>
DeclaresPastEnd(body, o) ==
  LET f == LengthField(body, o)
  IN f[1] # 0 \/ f[2] # 0 \/ o + 4 + f[3] * 256 + f[4] > Len(body)

\* The n values encoded from offset o on, or ok = FALSE when a length field
\* or a declared value length extends past the end of the body.
RECURSIVE EncodedValues(_, _, _)
EncodedValues(body, n, o) ==
  IF n = 0 THEN [ok |-> TRUE, values |-> <<>>]
  ELSE IF o + 4 > Len(body) THEN [ok |-> FALSE, values |-> <<>>]
  ELSE IF LengthField(body, o) = NullMark
  THEN LET rest == EncodedValues(body, n - 1, o + 4)
       IN [ok |-> rest.ok, values |-> <<NilBytes>> \o rest.values]
  ELSE IF DeclaresPastEnd(body, o) THEN [ok |-> FALSE, values |-> <<>>]
  ELSE LET len == LengthField(body, o)[3] * 256 + LengthField(body, o)[4]
           rest == EncodedValues(body, n - 1, o + 4 + len)
       IN [ok |-> rest.ok,
           values |-> <<Slice(SubSeq(body, o + 5, o + 4 + len))>> \o rest.values]

\* The body of the DataRow frame the Query of caller p has read.
DataRowBody(p) == trace[p][2].body

====
